---- MODULE Spec2Model ----
(***************************************************************************)
(* Model of covid_expert_ui.py: the rule engine SimpleCovidExpert (a fixed *)
(* ordered rule list plus a default conclusion, first match wins) and the  *)
(* handlers of CovidExpertUI (checkbox toggles, Diagnose, Reset, Show      *)
(* Rules) that drive it.                                                   *)
(***************************************************************************)
EXTENDS FiniteSets, Integers, Sequences, TLC

VARIABLES
    rules,          \* SimpleCovidExpert.rules: the ordered rule list
    default,        \* SimpleCovidExpert.default: the default conclusion
    symptoms_vars,  \* CovidExpertUI.symptoms_vars: key -> BooleanVar value
    result_var,     \* text of the "Result" label
    confidence_var, \* text of the "Confidence" label
    advice_text,    \* content of the "Advice / Next steps" text box
    explain_var,    \* text of the "Rule Fired" label
    diagnosis,      \* <<frame>> when the handler that ran last is run_diagnosis:
                    \* its locals facts, rule, conclusion; <<>> otherwise
    messagebox,     \* the dialogs the handler that ran last has shown
    win_txt,        \* <<>> or <<text>>: text of the most recent Rules window
    earlier         \* <<>> or <<frame>>: the locals of some run_diagnosis call
                    \* made so far (any one of them)

vars == <<rules, default, symptoms_vars, result_var, confidence_var,
          advice_text, explain_var, diagnosis, messagebox, win_txt, earlier>>

-----------------------------------------------------------------------------
(* The rule engine: SimpleCovidExpert *)

\* the keys of symptoms_vars, in the order the dict declares them
SymptomKeys ==
    <<"fever", "cough", "sore_throat", "shortness_breath",
      "loss_taste_smell", "recent_exposure">>

Symptom == {SymptomKeys[i] : i \in 1..Len(SymptomKeys)}

Rule1 ==
    [name |-> "Rule 1: Fever + Loss of Taste/Smell",
     conditions |-> <<"fever", "loss_taste_smell">>,
     conclusion |->
        [label |-> "Likely COVID-19",
         confidence |-> "High",
         advice |-> "Seek medical advice and isolate. Consider getting a PCR test."]]

Rule2 ==
    [name |-> "Rule 2: Fever + Cough",
     conditions |-> <<"fever", "cough">>,
     conclusion |->
        [label |-> "Possible COVID-19",
         confidence |-> "Medium",
         advice |-> "Self-isolate, monitor symptoms and consider testing."]]

InitialRules == <<Rule1, Rule2>>

InitialDefault ==
    [label |-> "Low likelihood of COVID-19",
     confidence |-> "Low",
     advice |-> "Could be normal flu. Monitor your condition and seek help if symptoms worsen."]

\* mutant of all_conditions: any() where the code has all()
any_condition(conditions, facts) ==
    \E i \in 1..Len(conditions) : conditions[i] \in facts

\* all(cond in facts for cond in rule["conditions"])
all_conditions(conditions, facts) ==
    \A i \in 1..Len(conditions) : conditions[i] \in facts

\* mutant of scan: the loop does not stop at the first match, the last match wins
RECURSIVE scan_last_match(_, _, _, _)
scan_last_match(rs, dflt, facts, i) ==
    IF i > Len(rs)
    THEN [rule |-> <<>>, conclusion |-> dflt]
    ELSE LET later == scan_last_match(rs, dflt, facts, i + 1)
         IN  IF later.rule # <<>> THEN later
             ELSE IF \A j \in 1..Len(rs[i].conditions) : rs[i].conditions[j] \in facts
                  THEN [rule |-> <<rs[i]>>, conclusion |-> rs[i].conclusion]
                  ELSE later

\* mutant of scan: after the loop the loop variable is returned, not the default
RECURSIVE scan_leaks_rule(_, _, _, _)
scan_leaks_rule(rs, dflt, facts, i) ==
    IF i > Len(rs)
    THEN IF Len(rs) = 0
         THEN [rule |-> <<>>, conclusion |-> dflt]
         ELSE [rule |-> <<rs[Len(rs)]>>, conclusion |-> rs[Len(rs)].conclusion]
    ELSE IF \A j \in 1..Len(rs[i].conditions) : rs[i].conditions[j] \in facts
         THEN [rule |-> <<rs[i]>>, conclusion |-> rs[i].conclusion]
         ELSE scan_leaks_rule(rs, dflt, facts, i + 1)

\* mutant of scan: with no match an empty conclusion is returned, not the default
RECURSIVE scan_blank_default(_, _, _, _)
scan_blank_default(rs, dflt, facts, i) ==
    IF i > Len(rs)
    THEN [rule |-> <<>>,
          conclusion |-> [label |-> "", confidence |-> "", advice |-> ""]]
    ELSE IF \A j \in 1..Len(rs[i].conditions) : rs[i].conditions[j] \in facts
         THEN [rule |-> <<rs[i]>>, conclusion |-> rs[i].conclusion]
         ELSE scan_blank_default(rs, dflt, facts, i + 1)

\* the for loop of evaluate, from position i on
RECURSIVE scan(_, _, _, _)
scan(rs, dflt, facts, i) ==
    IF i > Len(rs)
    THEN [rule |-> <<>>, conclusion |-> dflt]
    ELSE IF all_conditions(rs[i].conditions, facts)
         THEN [rule |-> <<rs[i]>>, conclusion |-> rs[i].conclusion]
         ELSE scan(rs, dflt, facts, i + 1)

\* the first position from i on whose rule matches, 0 if there is none
RECURSIVE first_match_from(_, _, _)
first_match_from(rs, facts, i) ==
    IF i > Len(rs) THEN 0
    ELSE IF \A j \in 1..Len(rs[i].conditions) : rs[i].conditions[j] \in facts
         THEN i
         ELSE first_match_from(rs, facts, i + 1)

\* mutant of evaluate: the matched rule is moved to the front of self.rules
evaluate_move_to_front(rs, dflt, facts) ==
    LET m == first_match_from(rs, facts, 1)
    IN  IF m = 0
        THEN [rule |-> <<>>, conclusion |-> dflt,
              rules |-> rs, default |-> dflt, facts |-> facts]
        ELSE [rule |-> <<rs[m]>>, conclusion |-> rs[m].conclusion,
              rules |-> <<rs[m]>> \o SubSeq(rs, 1, m - 1) \o SubSeq(rs, m + 1, Len(rs)),
              default |-> dflt, facts |-> facts]

\* mutant of evaluate: the conditions of the matched rule are removed from facts
evaluate_consumes_facts(rs, dflt, facts) ==
    LET m == first_match_from(rs, facts, 1)
    IN  IF m = 0
        THEN [rule |-> <<>>, conclusion |-> dflt,
              rules |-> rs, default |-> dflt, facts |-> facts]
        ELSE [rule |-> <<rs[m]>>, conclusion |-> rs[m].conclusion,
              rules |-> rs, default |-> dflt,
              facts |-> facts \ {rs[m].conditions[j] : j \in 1..Len(rs[m].conditions)}]

\* evaluate(self, facts): the returned pair (rule is <<>> for None, <<r>> for
\* a rule r), and the store and the fact set as the call leaves them
evaluate(rs, dflt, facts) ==
    LET found == scan(rs, dflt, facts, 1)
    IN  [rule |-> found.rule, conclusion |-> found.conclusion,
         rules |-> rs, default |-> dflt, facts |-> facts]

-----------------------------------------------------------------------------
(* The window: CovidExpertUI *)

NoDiagnosisYet == "No diagnosis yet."
NoConfidence == "-"
NoRuleFiredYet == "No rule fired yet."
DefaultApplied == "Default rule applied."

AdvisoryNotice ==
    [title |-> "Important",
     message |-> "You have recent exposure. Please isolate and get tested."]

\* {k for k, v in self.symptoms_vars.items() if v.get()}
selected(sv) == {k \in DOMAIN sv : sv[k]}

\* mutant of advisory_due: Medium is left out
advisory_high_only(facts, conclusion) ==
    /\ "recent_exposure" \in facts
    /\ conclusion.confidence \in {"High"}

\* "recent_exposure" in facts and conclusion["confidence"] in ("High", "Medium")
advisory_due(facts, conclusion) ==
    /\ "recent_exposure" \in facts
    /\ conclusion.confidence \in {"High", "Medium"}

\* the text of the "Rule Fired" label
explain(rule) ==
    IF rule # <<>> THEN "Fired: " \o rule[1].name ELSE DefaultApplied

\* sep.join(items)
RECURSIVE join(_, _)
join(sep, items) ==
    IF Len(items) = 0 THEN ""
    ELSE IF Len(items) = 1 THEN items[1]
    ELSE items[1] \o sep \o join(sep, Tail(items))

\* the three inserts show_rules makes for one rule
rule_text(r) ==
    r.name \o ":\n"
    \o "  IF " \o join(" AND ", r.conditions) \o "\n"
    \o "  THEN " \o r.conclusion.label \o " (" \o r.conclusion.confidence \o ")\n\n"

\* the for loop of show_rules, from position i on
RECURSIVE rules_text(_, _)
rules_text(rs, i) ==
    IF i > Len(rs) THEN "" ELSE rule_text(rs[i]) \o rules_text(rs, i + 1)

\* mutant of listing: the default line is written before the rules
listing_default_first(rs, dflt) ==
    "Default rule: " \o dflt.label \o " (" \o dflt.confidence \o ")\n\n"
    \o rules_text(rs, 1)

\* everything show_rules inserts into the text box of the Rules window
listing(rs, dflt) ==
    rules_text(rs, 1)
    \o "Default rule: " \o dflt.label \o " (" \o dflt.confidence \o ")"

\* the widgets as CovidExpertUI.__init__ leaves them
InitUI ==
    /\ result_var = NoDiagnosisYet
    /\ confidence_var = NoConfidence
    /\ advice_text = ""
    /\ explain_var = NoRuleFiredYet
    /\ diagnosis = <<>>
    /\ messagebox = <<>>
    /\ win_txt = <<>>
    /\ earlier = <<>>

Init ==
    /\ rules = InitialRules
    /\ default = InitialDefault
    /\ symptoms_vars = [k \in Symptom |-> FALSE]
    /\ InitUI

\* the user clicks the Checkbutton bound to symptoms_vars[k]
toggle(k) ==
    /\ symptoms_vars' = [symptoms_vars EXCEPT ![k] = ~@]
    /\ diagnosis' = <<>>
    /\ messagebox' = <<>>
    /\ UNCHANGED <<rules, default, result_var, confidence_var, advice_text,
                   explain_var, win_txt, earlier>>

\* the Diagnose button
run_diagnosis ==
    LET call == evaluate(rules, default, selected(symptoms_vars))
        frame == [facts |-> call.facts, rule |-> call.rule,
                  conclusion |-> call.conclusion]
    IN  /\ rules' = call.rules
        /\ default' = call.default
        /\ result_var' = call.conclusion.label
        /\ confidence_var' = call.conclusion.confidence
        /\ advice_text' = call.conclusion.advice
        /\ explain_var' = explain(call.rule)
        /\ messagebox' = IF advisory_due(call.facts, call.conclusion)
                         THEN <<AdvisoryNotice>> ELSE <<>>
        /\ diagnosis' = <<frame>>
        /\ earlier' \in {earlier, <<frame>>}
        /\ UNCHANGED <<symptoms_vars, win_txt>>

\* mutant of reset: the "Rule Fired" label is not reset
reset_keeps_explain ==
    /\ symptoms_vars' = [k \in DOMAIN symptoms_vars |-> FALSE]
    /\ result_var' = NoDiagnosisYet
    /\ confidence_var' = NoConfidence
    /\ advice_text' = ""
    /\ diagnosis' = <<>>
    /\ messagebox' = <<>>
    /\ UNCHANGED <<rules, default, explain_var, win_txt, earlier>>

\* the Reset button
reset ==
    /\ symptoms_vars' = [k \in DOMAIN symptoms_vars |-> FALSE]
    /\ result_var' = NoDiagnosisYet
    /\ confidence_var' = NoConfidence
    /\ explain_var' = NoRuleFiredYet
    /\ advice_text' = ""
    /\ diagnosis' = <<>>
    /\ messagebox' = <<>>
    /\ UNCHANGED <<rules, default, win_txt, earlier>>

\* the Show Rules button
show_rules ==
    /\ win_txt' = <<listing(rules, default)>>
    /\ diagnosis' = <<>>
    /\ messagebox' = <<>>
    /\ UNCHANGED <<rules, default, symptoms_vars, result_var, confidence_var,
                   advice_text, explain_var, earlier>>

Next ==
    \/ \E k \in Symptom : toggle(k)
    \/ run_diagnosis
    \/ reset
    \/ show_rules

Spec == Init /\ [][Next]_vars

-----------------------------------------------------------------------------
(* evaluate over arbitrary rule stores *)

MaxRules == 2       \* longest rule sequence drawn
MaxConds == 2       \* longest condition list drawn
GenSymCount == 2    \* how many of the symptom keys the drawn stores and facts use

GenSymptoms == {SymptomKeys[i] : i \in 1..GenSymCount}

\* the condition lists drawn: non-empty, no symptom listed twice
GenConditions ==
    UNION {{c \in [1..n -> GenSymptoms] :
                \A i, j \in 1..n : c[i] = c[j] => i = j} : n \in 1..MaxConds}

GenConfidence(i) ==
    CASE i % 3 = 1 -> "High" [] i % 3 = 2 -> "Medium" [] OTHER -> "Low"

\* the rule drawn for position i: name and conclusion tell the positions apart
GenRule(i, conds) ==
    [name |-> "Rule " \o ToString(i),
     conditions |-> conds,
     conclusion |-> [label |-> "Label " \o ToString(i),
                     confidence |-> GenConfidence(i),
                     advice |-> "Advice " \o ToString(i)]]

GenStores ==
    UNION {{[i \in 1..n |-> GenRule(i, cs[i])] : cs \in [1..n -> GenConditions]} :
                n \in 0..MaxRules}

InitGen ==
    /\ rules \in GenStores
    /\ default = InitialDefault
    /\ \E f \in SUBSET GenSymptoms : symptoms_vars = [k \in Symptom |-> k \in f]
    /\ InitUI

NextGen == run_diagnosis

SpecGen == InitGen /\ [][NextGen]_vars

-----------------------------------------------------------------------------
(* Properties *)

\* the fact set the Diagnose that has just run gave to evaluate
Given == selected(symptoms_vars)

Diagnosed == diagnosis # <<>>

\* C1: whenever evaluate is given facts that contain fever and loss_taste_smell
\* (with or without cough and the other symptoms) it returns Rule 1 with the
\* conclusion Likely COVID-19 / High, and never Rule 2.
C1_Rule1Wins ==
    (Diagnosed /\ {"fever", "loss_taste_smell"} \subseteq Given) =>
        /\ diagnosis[1].rule # <<>>
        /\ diagnosis[1].rule[1].name = "Rule 1: Fever + Loss of Taste/Smell"
        /\ diagnosis[1].rule[1].name # "Rule 2: Fever + Cough"
        /\ diagnosis[1].conclusion.label = "Likely COVID-19"
        /\ diagnosis[1].conclusion.confidence = "High"
        /\ diagnosis[1].conclusion = diagnosis[1].rule[1].conclusion

C1_Witness ==
    /\ Diagnosed
    /\ Given = {"fever", "cough", "loss_taste_smell", "sore_throat"}
    /\ diagnosis[1].rule = <<Rule1>>

\* C2: whenever evaluate is given facts that contain fever and cough but not
\* loss_taste_smell it returns Rule 2 with the conclusion Possible COVID-19 /
\* Medium.
C2_Rule2Fires ==
    (Diagnosed /\ {"fever", "cough"} \subseteq Given
               /\ "loss_taste_smell" \notin Given) =>
        /\ diagnosis[1].rule # <<>>
        /\ diagnosis[1].rule[1].name = "Rule 2: Fever + Cough"
        /\ diagnosis[1].conclusion.label = "Possible COVID-19"
        /\ diagnosis[1].conclusion.confidence = "Medium"
        /\ diagnosis[1].conclusion = diagnosis[1].rule[1].conclusion

C2_Witness ==
    /\ Diagnosed
    /\ Given = {"fever", "cough", "recent_exposure"}
    /\ diagnosis[1].rule = <<Rule2>>

\* C3: whenever evaluate is given facts that contain neither all of {fever,
\* loss_taste_smell} nor all of {fever, cough} (the empty fact set included) it
\* returns no rule and the default conclusion Low likelihood of COVID-19 / Low.
C3_DefaultApplies ==
    (Diagnosed /\ ~({"fever", "loss_taste_smell"} \subseteq Given)
               /\ ~({"fever", "cough"} \subseteq Given)) =>
        /\ diagnosis[1].rule = <<>>
        /\ diagnosis[1].conclusion.label = "Low likelihood of COVID-19"
        /\ diagnosis[1].conclusion.confidence = "Low"
        /\ diagnosis[1].conclusion = default

C3_Witness ==
    /\ Diagnosed
    /\ Given = {"cough", "loss_taste_smell", "recent_exposure"}
    /\ diagnosis[1].rule = <<>>

\* the set of symptoms a condition list names
ConditionSet(r) == {r.conditions[j] : j \in 1..Len(r.conditions)}

\* the positions of the rules whose condition set is a subset of the facts
Matching(rs, facts) == {i \in 1..Len(rs) : ConditionSet(rs[i]) \subseteq facts}

\* C4: for any rule store and any fact set, evaluate returns the rule at the
\* smallest position whose condition set is a subset of the facts, with that
\* rule's conclusion, and (none, default) exactly when no condition set is a
\* subset of the facts; a later rule is never returned when an earlier rule's
\* condition set is a subset of its own.
C4_FirstMatch ==
    Diagnosed =>
        LET M == Matching(rules, Given)
        IN  /\ (M = {}) <=> (diagnosis[1].rule = <<>>)
            /\ M = {} => diagnosis[1].conclusion = default
            /\ M # {} =>
                 \E m \in M :
                    /\ \A i \in M : m <= i
                    /\ diagnosis[1].rule = <<rules[m]>>
                    /\ diagnosis[1].conclusion = rules[m].conclusion
            /\ \A i, k \in 1..Len(rules) :
                 (i < k /\ ConditionSet(rules[i]) \subseteq ConditionSet(rules[k]))
                    => diagnosis[1].rule # <<rules[k]>>

\* both rules match and the earlier one, whose conditions are a proper subset
\* of the later one's, is returned
C4_Witness ==
    /\ Diagnosed
    /\ Len(rules) = 2
    /\ rules[1].conditions = <<"cough">>
    /\ rules[2].conditions = <<"fever", "cough">>
    /\ Given = {"fever", "cough"}
    /\ diagnosis[1].rule = <<rules[1]>>

\* C5: on every Diagnose the advisory notice "You have recent exposure. Please
\* isolate and get tested." is shown if and only if recent_exposure is selected
\* and the confidence of the returned conclusion is High or Medium.
C5_Advisory ==
    Diagnosed =>
        /\ (\E n \in 1..Len(messagebox) :
                messagebox[n].message =
                    "You have recent exposure. Please isolate and get tested.")
            <=> ("recent_exposure" \in Given
                 /\ diagnosis[1].conclusion.confidence \in {"High", "Medium"})
        /\ (Given = {"fever", "loss_taste_smell", "recent_exposure"}
                => messagebox # <<>>)
        /\ (Given = {"recent_exposure"} => messagebox = <<>>)

C5_Witness ==
    /\ Diagnosed
    /\ Given = {"fever", "cough", "recent_exposure"}
    /\ messagebox = <<AdvisoryNotice>>

\* C6: evaluate always produces an answer: the conclusion it returns is the
\* conclusion of one of the store's rules or the default conclusion, and its
\* confidence is one of High, Medium, Low.
C6_AlwaysAnswers ==
    Diagnosed =>
        /\ diagnosis[1].conclusion \in
                {rules[i].conclusion : i \in 1..Len(rules)} \cup {default}
        /\ diagnosis[1].conclusion.confidence \in {"High", "Medium", "Low"}

C6_Witness ==
    /\ Diagnosed
    /\ Given = {}
    /\ diagnosis[1].conclusion = InitialDefault

\* C7: two evaluate calls with the same fact set return the same matched rule
\* and the same conclusion, whatever handlers ran between them.
C7_Deterministic ==
    (Diagnosed /\ earlier # <<>> /\ earlier[1].facts = diagnosis[1].facts) =>
        /\ earlier[1].rule = diagnosis[1].rule
        /\ earlier[1].conclusion = diagnosis[1].conclusion

\* a call is repeated after a Diagnose with other facts and a Show Rules
C7_Witness ==
    /\ Diagnosed
    /\ earlier # <<>>
    /\ earlier[1].facts = {"fever", "cough", "loss_taste_smell"}
    /\ diagnosis[1].facts = earlier[1].facts
    /\ win_txt # <<>>
    /\ result_var = "Likely COVID-19"

ExpectedListing ==
    "Rule 1: Fever + Loss of Taste/Smell:\n"
    \o "  IF fever AND loss_taste_smell\n"
    \o "  THEN Likely COVID-19 (High)\n\n"
    \o "Rule 2: Fever + Cough:\n"
    \o "  IF fever AND cough\n"
    \o "  THEN Possible COVID-19 (Medium)\n\n"
    \o "Default rule: Low likelihood of COVID-19 (Low)"

\* C8: the Rules window lists Rule 1, then Rule 2, then the default, each with
\* its name, conditions and conclusion, nothing omitted, added or reordered,
\* whatever ran before.
C8_Listing == win_txt # <<>> => win_txt = <<ExpectedListing>>

C8_Witness ==
    /\ win_txt = <<ExpectedListing>>
    /\ earlier # <<>>
    /\ result_var = NoDiagnosisYet

\* C9: the rule sequence and the default conclusion always equal their values
\* at construction, and evaluate leaves the fact set it was given unchanged.
C9_StoreReadOnly ==
    /\ rules = <<Rule1, Rule2>>
    /\ default = InitialDefault
    /\ Diagnosed => diagnosis[1].facts = Given

C9_Witness ==
    /\ Diagnosed
    /\ win_txt # <<>>
    /\ diagnosis[1].facts = {"fever", "cough"}
    /\ earlier # <<>> /\ earlier[1].facts = {"fever", "loss_taste_smell"}

DisplayInitial ==
    /\ result_var = "No diagnosis yet."
    /\ confidence_var = "-"
    /\ advice_text = ""
    /\ explain_var = "No rule fired yet."

\* the four fields show one evaluation that returned rule r
DisplayOfRule(r) ==
    /\ result_var = r.conclusion.label
    /\ confidence_var = r.conclusion.confidence
    /\ advice_text = r.conclusion.advice
    /\ explain_var = "Fired: " \o r.name

\* the four fields show one evaluation that returned the default
DisplayOfDefault ==
    /\ result_var = InitialDefault.label
    /\ confidence_var = InitialDefault.confidence
    /\ advice_text = InitialDefault.advice
    /\ explain_var = "Default rule applied."

DisplayConsistent ==
    \/ DisplayInitial
    \/ /\ DisplayOfDefault \/ DisplayOfRule(Rule1) \/ DisplayOfRule(Rule2)
       /\ (explain_var = "Default rule applied.") <=> (confidence_var = "Low")

\* C10: the four result fields are always either the initial values or the
\* values of one single evaluation (Default rule applied. exactly when the
\* confidence shown is Low, else Fired: and the name of the rule whose label
\* and confidence are shown), and every Reset leaves the initial values with
\* all six checkboxes cleared.
C10_DisplayConsistent ==
    /\ []DisplayConsistent
    /\ [][reset => (DisplayInitial' /\ selected(symptoms_vars') = {})]_vars

\* a Reset has cleared a displayed diagnosis and the checkboxes
C10_Witness ==
    /\ DisplayInitial
    /\ earlier # <<>>
    /\ Given = {}
    /\ ~Diagnosed

====
